---- MODULE Spec2Model ----
(***************************************************************************)
(* A model of godbt's traffic topology service (src/src/main.rs): the      *)
(* traffic_graph_builder fold, its serializer, and the two HTTP handlers   *)
(* that feed it from the record store.                                     *)
(*                                                                         *)
(* Strings are sequences of one-character strings, so that split, join     *)
(* and format! are computed as the code computes them.                     *)
(* Option<String> is a record [some, val].                                 *)
(***************************************************************************)
EXTENDS Integers, Sequences, FiniteSets, Bags, TLC

VARIABLES
    pc,         \* where the running call is
    endpoint,   \* which entry point was called
    data,       \* the result of collection.find: "none", "ok", "err"
    cursor,     \* the items the cursor has still to yield
    results,    \* the Vec<TrafficResults> (handler local / builder argument)
    pos,        \* how many docs the builder's for loop has taken
    graph,      \* petgraph Graph: [nodes: Seq(weight), edges: Seq(<<src, tgt>>)]
    nodes,      \* HashMap<String, NodeIndex>
    edges,      \* HashMap<(String, String), EdgeIndex>
    response,   \* what the handler answered
    yielded,    \* the store's side: the items the cursor has yielded so far
    query,      \* the page and size of the request's TrafficParams
    find_options \* the FindOptions handed to collection.find

vars ==
    <<pc, endpoint, data, cursor, results, pos, graph, nodes, edges, response,
      yielded, query, find_options>>

----------------------------------------------------------------------------
(* Bounds of the model *)

\* longest record sequence handed to the builder from the full record universe
MaxRecords == 2
\* most labels of a host in the host-only inputs
MaxLabels == 4
\* most items a cursor yields
MaxStream == 3
\* width of the unsigned and signed integers of the query, standing for the
\* 64 bits of u64 and i64
WordBits == 5

----------------------------------------------------------------------------
(* Option<String> *)

None == [some |-> FALSE, val |-> <<>>]
Some(s) == [some |-> TRUE, val |-> s]

\* Option::unwrap_or
unwrap_or(o, d) == IF o.some THEN o.val ELSE d

----------------------------------------------------------------------------
(* str::split(char) and [String]::join(&str) *)

RECURSIVE split(_, _)
split(s, sep) ==
    IF \A i \in 1..Len(s) : s[i] # sep
    THEN <<s>>
    ELSE LET i == CHOOSE k \in 1..Len(s) :
                      s[k] = sep /\ \A j \in 1..(k - 1) : s[j] # sep
         IN  <<SubSeq(s, 1, i - 1)>> \o split(SubSeq(s, i + 1, Len(s)), sep)

RECURSIVE join(_, _)
join(parts, sep) ==
    IF Len(parts) = 0 THEN <<>>
    ELSE IF Len(parts) = 1 THEN parts[1]
    ELSE parts[1] \o <<sep>> \o join(Tail(parts), sep)

\* host_elements[i..len] and path_elements[..i] with Rust's 0-based bounds
slice(v, from, to) == SubSeq(v, from + 1, to)

----------------------------------------------------------------------------
(* The builder's state: graph, nodes, edges, and whether it has panicked *)

EmptyMap == [k \in {} |-> 0]

NewState ==
    [graph |-> [nodes |-> <<>>, edges |-> <<>>],
     nodes |-> EmptyMap, edges |-> EmptyMap, panicked |-> FALSE]

contains_key(m, k) == k \in DOMAIN m

\* graph.add_node(weight); nodes.insert(key, node)
add_node(st, key) ==
    [st EXCEPT !.graph.nodes = Append(@, key),
               !.nodes = (key :> (Len(st.graph.nodes) + 1)) @@ @]

\* an add_edge that records the edge key even when an endpoint has no node
add_edge_unchecked(st, from, to) ==
    LET handle(k) == IF contains_key(st.nodes, k) THEN st.nodes[k] ELSE 0
    IN  [st EXCEPT !.graph.edges = Append(@, <<handle(from), handle(to)>>),
                   !.edges = (<<from, to>> :> (Len(st.graph.edges) + 1)) @@ @]

\* graph.add_edge(nodes[from], nodes[to], GraphEdge {}); edges.insert(key, edge)
\* nodes[k] panics when k is not a key of the map
add_edge(st, from, to) ==
    IF ~contains_key(st.nodes, from) \/ ~contains_key(st.nodes, to)
    THEN [st EXCEPT !.panicked = TRUE]
    ELSE [st EXCEPT !.graph.edges = Append(@, <<st.nodes[from], st.nodes[to]>>),
                    !.edges = (<<from, to>> :> (Len(st.graph.edges) + 1)) @@ @]

----------------------------------------------------------------------------
(* Domain hierarchy: one node per host suffix of two labels or more *)

\* a suffix node added without looking the key up first
domain_node_always_add(st, node_key) == add_node(st, node_key)

\* get-or-create of the suffix node
domain_node(st, node_key) ==
    IF contains_key(st.nodes, node_key) THEN st ELSE add_node(st, node_key)

\* an edge that runs from the suffix to its parent suffix
domain_edge_reversed(st, parent, node_key) ==
    IF contains_key(st.edges, <<node_key, parent>>)
    THEN st
    ELSE add_edge(st, node_key, parent)

\* get-or-create of the edge parent suffix -> suffix
domain_edge(st, parent, node_key) ==
    IF contains_key(st.edges, <<parent, node_key>>)
    THEN st
    ELSE add_edge(st, parent, node_key)

\* the body of `for i in (0..len - 1).rev()`, from i down to 0
RECURSIVE domain_loop(_, _, _)
domain_loop(st, host_elements, i) ==
    IF i < 0 \/ st.panicked THEN st
    ELSE LET len == Len(host_elements)
             node_key == join(slice(host_elements, i, len), ".")
             st1 == domain_node(st, node_key)
             st2 == IF i < len - 2
                    THEN domain_edge(st1, join(slice(host_elements, i + 1, len), "."),
                                     node_key)
                    ELSE st1
         IN  domain_loop(st2, host_elements, i - 1)

\* a loop that starts one suffix too early, at the last label alone
domain_hierarchy_from_last_label(st, doc) ==
    IF st.panicked \/ ~doc.host.some THEN st
    ELSE LET host_elements == split(doc.host.val, ".")
         IN  domain_loop(st, host_elements, Len(host_elements) - 1)

\* `if let Some(ref host) = doc.host`: split never returns an empty vector, so
\* len - 1 does not underflow; the range 0..len-1 reversed starts at len - 2
domain_hierarchy(st, doc) ==
    IF st.panicked \/ ~doc.host.some THEN st
    ELSE LET host_elements == split(doc.host.val, ".")
         IN  domain_loop(st, host_elements, Len(host_elements) - 2)

----------------------------------------------------------------------------
(* Path hierarchy: one node per host + path prefix *)

\* a key that puts a '/' between the host and the prefix
path_key_with_slash(host, path_elements, i) ==
    host \o <<"/">> \o join(slice(path_elements, 0, i), "/")

\* format!("{}{}", host, &path_elements[..i].join("/"))
path_key(host, path_elements, i) ==
    host \o join(slice(path_elements, 0, i), "/")

\* a prefix node that is created only when the index already holds a node
path_node_when_rooted(st, key) ==
    IF contains_key(st.nodes, key) \/ st.nodes = EmptyMap
    THEN st
    ELSE add_node(st, key)

path_node(st, key) ==
    IF contains_key(st.nodes, key) THEN st ELSE add_node(st, key)

\* i == 0: the edge host -> first prefix, only when a host node exists
first_prefix_edge(st, host, key) ==
    IF contains_key(st.nodes, host)
    THEN IF contains_key(st.edges, <<host, key>>)
         THEN st
         ELSE add_edge(st, host, key)
    ELSE st

\* i > 0: the edge previous prefix -> prefix
prefix_edge(st, parent_key, key) ==
    IF contains_key(st.edges, <<parent_key, key>>)
    THEN st
    ELSE IF contains_key(st.nodes, parent_key)
         THEN add_edge(st, parent_key, key)
         ELSE st

\* the body of `for i in 0..len`, from i up to len - 1
RECURSIVE path_loop(_, _, _, _)
path_loop(st, host, path_elements, i) ==
    IF i >= Len(path_elements) \/ st.panicked THEN st
    ELSE LET key == path_key(host, path_elements, i + 1)
             st1 == path_node(st, key)
             st2 == IF i = 0
                    THEN first_prefix_edge(st1, host, key)
                    ELSE prefix_edge(st1, path_key(host, path_elements, i), key)
         IN  path_loop(st2, host, path_elements, i + 1)

path_hierarchy(st, doc) ==
    IF st.panicked \/ ~doc.path.some THEN st
    ELSE path_loop(st, unwrap_or(doc.host, <<>>), split(doc.path.val, "/"), 0)

----------------------------------------------------------------------------
(* Method leaf *)

\* format!("{} {}{}", method, host, path)
method_key(method, host, path) == method \o <<" ">> \o host \o path

method_node(st, key) ==
    IF contains_key(st.nodes, key) THEN st ELSE add_node(st, key)

\* an edge drawn the wrong way round, from the method node to its parent
method_edge_reversed(st, parent_key, key) ==
    IF contains_key(st.edges, <<parent_key, key>>)
    THEN st
    ELSE add_edge(st, key, parent_key)

\* Entry::Vacant: add_edge(nodes[&parent_key], nodes[&method_key]) with no
\* check that parent_key is a key of nodes
method_edge(st, parent_key, key) ==
    IF contains_key(st.edges, <<parent_key, key>>)
    THEN st
    ELSE add_edge(st, parent_key, key)

method_leaf(st, doc) ==
    IF st.panicked \/ ~doc.method.some THEN st
    ELSE LET host == unwrap_or(doc.host, <<>>)
             path == unwrap_or(doc.path, <<>>)
             key == method_key(doc.method.val, host, path)
             parent_key == host \o path
         IN  method_edge(method_node(st, key), parent_key, key)

----------------------------------------------------------------------------
(* The fold over the records *)

process_doc(st, doc) ==
    method_leaf(path_hierarchy(domain_hierarchy(st, doc), doc), doc)

RECURSIVE builder_fold(_, _)
builder_fold(st, docs) ==
    IF docs = <<>> \/ st.panicked THEN st
    ELSE builder_fold(process_doc(st, Head(docs)), Tail(docs))

traffic_graph_builder(docs) == builder_fold(NewState, docs)

----------------------------------------------------------------------------
(* Serializer and response bodies *)

\* serde_json::to_string(&value): the JSON text of a value
to_string(value) == [json_text |-> value]

\* axum's Json(value): a body that is the JSON encoding of value
Json(value) == [json |-> value]

\* a serializer that writes each link from its target to its source
traffic_graph_response_swapped(g, ns, es) ==
    to_string([nodes |-> SetToBag({[id |-> k] : k \in DOMAIN ns}),
               links |-> SetToBag({[source |-> e[2], target |-> e[1]] :
                                      e \in DOMAIN es})])

\* one ResponseNode per entry of nodes, one ResponseLink per entry of edges,
\* in the maps' iteration order (not fixed: a bag), then to_string
traffic_graph_response(g, ns, es) ==
    to_string([nodes |-> SetToBag({[id |-> k] : k \in DOMAIN ns}),
               links |-> SetToBag({[source |-> e[1], target |-> e[2]] :
                                      e \in DOMAIN es})])

ErrorResponse(message) == [message |-> message]

OK == 200
NOT_FOUND == 404
INTERNAL_SERVER_ERROR == 500
SERVICE_UNAVAILABLE == 503

NoResponse == [status |-> 0, body |-> Json(<<>>)]

\* after the cursor is drained, handle_traffic_graph builds always
graph_branch_always_build(res) == "build"

\* after the cursor is drained: `if !results.is_empty()`
graph_branch(res) == IF res # <<>> THEN "build" ELSE "no_match"

----------------------------------------------------------------------------
(* Inputs *)

a == <<"a">>
a_b == <<"a", ".", "b">>
G == <<"G">>
x == <<"x">>
y == <<"y">>
slash_x == <<"/", "x">>

Doc(method, host, path) == [method |-> method, host |-> host, path |-> path]

Methods == {None, Some(G)}
Hosts == {None, Some(a), Some(a_b)}
Paths == {None, Some(x), Some(y), Some(slash_x)}

\* the record universe: every combination of present and absent fields
Docs == {Doc(m, h, p) : m \in Methods, h \in Hosts, p \in Paths}

SeqsUpTo(S, n) == UNION {[1..k -> S] : k \in 0..n}

\* a record sequence followed by a second copy of its first record
Replays(n) == {Append(s, s[1]) : s \in SeqsUpTo(Docs, n) \ {<<>>}}

\* a record with a method, then a record whose host spells the first one's
\* method key (a host is any string the store holds)
KeyCollisions ==
    {<<d, Doc(None, Some(method_key(d.method.val, unwrap_or(d.host, <<>>),
                                    unwrap_or(d.path, <<>>))), Some(x))>> :
        d \in {e \in Docs : e.method.some}}

\* hosts made of labels, for records that carry a host only
example == <<"e", "x", "a", "m", "p", "l", "e">>
com == <<"c", "o", "m">>
Labels == {<<>>, a, <<"b">>, example, com}
LabelSeqs == UNION {[1..k -> Labels] : k \in 1..MaxLabels}
HostOnly(labels) == Doc(None, Some(join(labels, ".")), None)

\* the record of the spec's full-chain example
GET == <<"G", "E", "T">>
example_com == example \o <<".">> \o com
api_users == <<"/", "a", "p", "i", "/", "u", "s", "e", "r", "s">>
FullChainDoc == Doc(Some(GET), Some(example_com), Some(api_users))

BuilderInputs ==
    SeqsUpTo(Docs, MaxRecords) \cup Replays(MaxRecords)
        \cup {<<HostOnly(ls)>> : ls \in LabelSeqs}
        \cup {<<FullChainDoc>>}
        \cup KeyCollisions

\* what a cursor yields: Ok(record), or Err: an item that does not decode, or
\* the connection lost while the results are read
CursorOk(doc) == [ok |-> TRUE, doc |-> doc]
CursorErr == [ok |-> FALSE, doc |-> Doc(None, None, None), err |-> "decode"]
CursorLost == [ok |-> FALSE, doc |-> Doc(None, None, None), err |-> "connection"]

\* the records the store holds
StoredDocs ==
    {Doc(None, Some(a_b), None), Doc(Some(G), Some(a_b), Some(slash_x)),
     Doc(None, Some(a), Some(x)), Doc(Some(G), None, None)}
CursorItems == {CursorOk(d) : d \in StoredDocs} \cup {CursorErr, CursorLost}

\* a cursor yields nothing more once the connection is lost
Streams ==
    {s \in SeqsUpTo(CursorItems, MaxStream) :
        \A i \in 1..(Len(s) - 1) : s[i] # CursorLost}

\* a loop body that throws the collected records away on a failed item
push_or_clear(res, document) ==
    IF document.ok THEN Append(res, document.doc) ELSE <<>>

\* the body of `while let Some(document) = cursor.next().await`:
\* `if let Ok(doc) = document { results.push(doc) }`, and in the records
\* handler `Ok(document) => results.push(document)`, `Err(e) => {}`
push(res, document) ==
    IF document.ok THEN Append(res, document.doc) ELSE res

----------------------------------------------------------------------------
(* Query parameters and FindOptions *)

\* Option<u64>
NoNumber == [some |-> FALSE, val |-> 0]
Number(n) == [some |-> TRUE, val |-> n]

\* u64::MAX and the least u64 that is negative as an i64
U64Max == 2 ^ WordBits - 1
I64Wrap == 2 ^ (WordBits - 1)

\* TrafficParams.page and TrafficParams.size
Pages == {NoNumber, Number(0), Number(1), Number(2), Number(U64Max)}
Sizes == {NoNumber, Number(0), Number(1), Number(I64Wrap), Number(U64Max)}
NoParams == [page |-> NoNumber, size |-> NoNumber]

\* `let mut page_number: u64 = 0; if let Some(ref number) = &query.page {..}`
page_number(q) == IF q.page.some THEN q.page.val ELSE 0

\* `let mut page_size: u64 = 10; if let Some(ref sz) = &query.size {..}`
page_size(q) == IF q.size.some THEN q.size.val ELSE 10

\* u64 * u64 exceeds u64::MAX
overflows(m, n) == m * n > U64Max

\* u64 * u64 without the overflow check
wrapping_mul(m, n) == (m * n) % (2 ^ WordBits)

\* `page_size as i64`: the same bits read as two's complement
as_i64(n) == IF n >= I64Wrap THEN n - 2 ^ WordBits ELSE n

\* FindOptions with nothing set: no sort, nothing skipped, no limit
NoOptions == [sort |-> "none", skip |-> 0, limit |-> 0]

\* .limit(Some(100))
GraphLimit == 100

\* the store yields at most |limit| items; 0 is no limit
within_limit(items, limit) ==
    \/ limit = 0
    \/ Len(items) <= (IF limit < 0 THEN 0 - limit ELSE limit)

----------------------------------------------------------------------------
(* The state machine *)

St == [graph |-> graph, nodes |-> nodes, edges |-> edges, panicked |-> FALSE]

Init ==
    /\ pc = "idle"
    /\ endpoint = "none"
    /\ data = "none"
    /\ cursor = <<>>
    /\ results = <<>>
    /\ pos = 0
    /\ graph = NewState.graph
    /\ nodes = NewState.nodes
    /\ edges = NewState.edges
    /\ response = NoResponse
    /\ yielded = <<>>
    /\ query = NoParams
    /\ find_options = NoOptions

\* a direct call traffic_graph_builder(docs)
CallBuilder ==
    /\ pc = "idle"
    /\ \E docs \in BuilderInputs : results' = docs
    /\ endpoint' = "builder"
    /\ pc' = "loop"
    /\ UNCHANGED <<data, cursor, pos, graph, nodes, edges, response, yielded, query, find_options>>

\* GET /traffic/graph arrives; the handler reads neither page nor size
GraphRequest ==
    /\ pc = "idle"
    /\ endpoint' = "graph"
    /\ pc' = "options"
    /\ UNCHANGED <<data, cursor, results, pos, graph, nodes, edges, response,
                   yielded, query, find_options>>

\* GET /traffic/records?page=..&size=.. arrives
RecordsRequest ==
    /\ pc = "idle"
    /\ endpoint' = "records"
    /\ \E page \in Pages, size \in Sizes : query' = [page |-> page, size |-> size]
    /\ pc' = "options"
    /\ UNCHANGED <<data, cursor, results, pos, graph, nodes, edges, response,
                   yielded, find_options>>

\* handle_traffic_graph: FindOptions::builder().projection(..).limit(Some(100))
GraphOptions ==
    /\ pc = "options"
    /\ endpoint = "graph"
    /\ find_options' = [NoOptions EXCEPT !.limit = GraphLimit]
    /\ pc' = "find"
    /\ UNCHANGED <<endpoint, data, cursor, results, pos, graph, nodes, edges,
                   response, yielded, query>>

\* handle_traffic_records: .sort(host: 1).skip(Some(page_number * page_size))
\* .limit(Some(page_size as i64)); the product wraps where overflow is not
\* checked (release profile)
RecordsOptions ==
    /\ pc = "options"
    /\ endpoint = "records"
    /\ find_options' =
           [sort |-> "host asc",
            skip |-> wrapping_mul(page_number(query), page_size(query)),
            limit |-> as_i64(page_size(query))]
    /\ pc' = "find"
    /\ UNCHANGED <<endpoint, data, cursor, results, pos, graph, nodes, edges,
                   response, yielded, query>>

\* the same multiplication where overflow is checked (debug profile): it panics
RecordsOptionsOverflow ==
    /\ pc = "options"
    /\ endpoint = "records"
    /\ overflows(page_number(query), page_size(query))
    /\ pc' = "panicked"
    /\ UNCHANGED <<endpoint, data, cursor, results, pos, graph, nodes, edges,
                   response, yielded, query, find_options>>

\* collection.find(...) returns Err(e): 500 with e's message
FindErr ==
    /\ pc = "find"
    /\ data' = "err"
    /\ response' = [status |-> INTERNAL_SERVER_ERROR,
                    body |-> Json(ErrorResponse("store error"))]
    /\ pc' = "responded"
    /\ UNCHANGED <<endpoint, cursor, results, pos, graph, nodes, edges, yielded, query, find_options>>

\* collection.find(...) returns Ok(cursor)
FindOk ==
    /\ pc = "find"
    /\ data' = "ok"
    /\ \E items \in Streams : within_limit(items, find_options.limit) /\ cursor' = items
    /\ pc' = "cursor"
    /\ UNCHANGED <<endpoint, results, pos, graph, nodes, edges, response, yielded, query, find_options>>

\* one turn of `while let Some(document) = cursor.next().await`
CursorNext ==
    /\ pc = "cursor"
    /\ cursor # <<>>
    /\ results' = push(results, Head(cursor))
    /\ cursor' = Tail(cursor)
    /\ yielded' = Append(yielded, Head(cursor))
    /\ UNCHANGED <<pc, endpoint, data, pos, graph, nodes, edges, response,
                   query, find_options>>

\* handle_traffic_graph once cursor.next() returns None
GraphCursorEnd ==
    /\ pc = "cursor"
    /\ cursor = <<>>
    /\ endpoint = "graph"
    /\ IF graph_branch(results) = "build"
       THEN /\ pc' = "loop"
            /\ response' = response
       ELSE /\ pc' = "responded"
            /\ response' =
                   [status |-> NOT_FOUND,
                    body |-> Json(ErrorResponse("No matching document found."))]
    /\ UNCHANGED <<endpoint, data, cursor, results, pos, graph, nodes, edges, yielded, query, find_options>>

\* handle_traffic_records once cursor.next() returns None: Ok(Json(results))
RecordsCursorEnd ==
    /\ pc = "cursor"
    /\ cursor = <<>>
    /\ endpoint = "records"
    /\ pc' = "responded"
    /\ response' = [status |-> OK, body |-> Json(results)]
    /\ UNCHANGED <<endpoint, data, cursor, results, pos, graph, nodes, edges, yielded, query, find_options>>

\* `for doc in results`: take the next doc, or leave the loop and return
LoopNext ==
    /\ pc = "loop"
    /\ IF pos < Len(results)
       THEN /\ pos' = pos + 1
            /\ pc' = "domain"
       ELSE /\ pos' = pos
            /\ pc' = IF endpoint = "builder" THEN "returned" ELSE "serialize"
    /\ UNCHANGED <<endpoint, data, cursor, results, graph, nodes, edges, response, yielded, query, find_options>>

\* the builder's variables after a sub-builder ran; a panic unwinds the call
Becomes(st, next) ==
    /\ graph' = st.graph
    /\ nodes' = st.nodes
    /\ edges' = st.edges
    /\ pc' = IF st.panicked THEN "panicked" ELSE next
    /\ UNCHANGED <<endpoint, data, cursor, results, pos, response, yielded, query, find_options>>

\* `if let Some(ref host) = doc.host.clone()`
DomainStep ==
    /\ pc = "domain"
    /\ Becomes(domain_hierarchy(St, results[pos]), "path")

\* `if let Some(ref path) = doc.path.clone()`
PathStep ==
    /\ pc = "path"
    /\ Becomes(path_hierarchy(St, results[pos]), "method")

\* `if let Some(ref method) = doc.method.clone()`
MethodStep ==
    /\ pc = "method"
    /\ Becomes(method_leaf(St, results[pos]), "loop")

\* handle_traffic_graph: Ok(Json(traffic_graph_response(graph, nodes, edges)))
Serialize ==
    /\ pc = "serialize"
    /\ response' = [status |-> OK,
                    body |-> Json(traffic_graph_response(graph, nodes, edges))]
    /\ pc' = "responded"
    /\ UNCHANGED <<endpoint, data, cursor, results, pos, graph, nodes, edges, yielded, query, find_options>>

Next ==
    \/ CallBuilder
    \/ GraphRequest
    \/ RecordsRequest
    \/ GraphOptions
    \/ RecordsOptions
    \/ RecordsOptionsOverflow
    \/ FindErr
    \/ FindOk
    \/ CursorNext
    \/ GraphCursorEnd
    \/ RecordsCursorEnd
    \/ LoopNext
    \/ DomainStep
    \/ PathStep
    \/ MethodStep
    \/ Serialize

Spec == Init /\ [][Next]_vars

----------------------------------------------------------------------------
(* Vocabulary of the properties *)

\* the direct call traffic_graph_builder(results) has returned
Returned == endpoint = "builder" /\ pc = "returned"

PermsOf(s) ==
    {[i \in 1..Len(s) |-> s[p[i]]] : p \in Permutations(1..Len(s))}

\* s with every exact duplicate removed, first occurrence kept
RECURSIVE Dedup(_)
Dedup(s) ==
    IF s = <<>> THEN <<>>
    ELSE LET front == Dedup(SubSeq(s, 1, Len(s) - 1))
             last == s[Len(s)]
         IN  IF \E i \in 1..Len(front) : front[i] = last
             THEN front
             ELSE Append(front, last)

\* the keys reachable from the keys S along the edges E
RECURSIVE ReachableFrom(_, _)
ReachableFrom(E, S) ==
    LET T == S \cup {e[2] : e \in {f \in E : f[1] \in S}}
    IN  IF T = S THEN S ELSE ReachableFrom(E, T)

HasCycle(E) == \E e \in E : e[1] \in ReachableFrom(E, {e[2]})

HasSpace(s) == \E i \in 1..Len(s) : s[i] = " "

\* the method-leaf key of a record that carries a method
MethodKeyOf(doc) ==
    method_key(doc.method.val, unwrap_or(doc.host, <<>>), unwrap_or(doc.path, <<>>))

\* the key of the first path prefix of a record that carries a path
FirstPrefixOf(doc) ==
    path_key(unwrap_or(doc.host, <<>>), split(doc.path.val, "/"), 1)

\* a handler (not a direct builder call) is running or has answered
Handling == endpoint \in {"graph", "records"}

\* the handler has sent its response
Responded == Handling /\ pc = "responded"

\* the store failed: find returned an error, or the connection was lost while
\* the results were read
StoreFailed == data = "err" \/ \E i \in 1..Len(yielded) : yielded[i] = CursorLost

\* the records of the items that decoded, in stream order
RECURSIVE Decoded(_)
Decoded(items) ==
    IF items = <<>> THEN <<>>
    ELSE IF Head(items).ok
         THEN <<Head(items).doc>> \o Decoded(Tail(items))
         ELSE Decoded(Tail(items))

\* the graph handler answered with a success
GraphSuccess == Responded /\ endpoint = "graph" /\ response.status = OK

\* the bag of the values f(s[i]) over the positions i of the sequence s
BagOfSeq(s, f(_)) ==
    LET vals == {f(s[i]) : i \in 1..Len(s)}
    IN  [v \in vals |-> Cardinality({i \in 1..Len(s) : f(s[i]) = v})]

\* the edge keys that are not self-loops
ProperEdges == {e \in DOMAIN edges : e[1] # e[2]}

\* the node keys a record derives on its own: its host suffixes of two labels
\* or more, its host + path-prefix keys, its method key
DomainKeysOf(doc) ==
    IF ~doc.host.some THEN {}
    ELSE LET labels == split(doc.host.val, ".")
         IN  {join(SubSeq(labels, i, Len(labels)), ".") : i \in 1..(Len(labels) - 1)}

PathKeysOf(doc) ==
    IF ~doc.path.some THEN {}
    ELSE LET segments == split(doc.path.val, "/")
         IN  {unwrap_or(doc.host, <<>>) \o join(SubSeq(segments, 1, i), "/") :
                 i \in 1..Len(segments)}

OwnKeys(doc) ==
    DomainKeysOf(doc) \cup PathKeysOf(doc)
        \cup (IF doc.method.some THEN {MethodKeyOf(doc)} ELSE {})

\* a body that is the error envelope {"message": ...}
IsEnvelope(body) == DOMAIN body = {"json"} /\ DOMAIN body.json = {"message"}

----------------------------------------------------------------------------
(* C1: order-independence *)

\* C1: when a build has returned, every permutation of its input that also
\* returns yields the same set of node keys and the same set of edge keys.
C1_OrderIndependence ==
    Returned =>
        \A p \in PermsOf(results) :
            LET r == traffic_graph_builder(p)
            IN  ~r.panicked =>
                    /\ DOMAIN r.nodes = DOMAIN nodes
                    /\ DOMAIN r.edges = DOMAIN edges

(* C2: idempotence *)

\* C2: when a build has returned, building from its input with the exact
\* duplicates removed (first occurrence kept) yields the same node keys and
\* the same edge keys.
C2_Idempotence ==
    Returned =>
        LET r == traffic_graph_builder(Dedup(results))
        IN  ~r.panicked =>
                /\ DOMAIN r.nodes = DOMAIN nodes
                /\ DOMAIN r.edges = DOMAIN edges

(* C3: totality *)

\* C3: no step of the domain, path or method sub-builder panics, whatever
\* fields of a record are present or absent.
C3_Totality == pc # "panicked"

(* C4: acyclicity *)

\* C4: the graph built so far has no edge from a key to itself and no
\* directed cycle.
C4_Acyclic ==
    /\ \A e \in DOMAIN edges : e[1] # e[2]
    /\ ~HasCycle(DOMAIN edges)

(* C5: deduplication *)

\* one graph node per node key and one graph edge per edge key
OnePerKey ==
    /\ Len(graph.nodes) = Cardinality(DOMAIN nodes)
    /\ Len(graph.edges) = Cardinality(DOMAIN edges)
    /\ \A i, j \in 1..Len(graph.nodes) :
           i # j => graph.nodes[i] # graph.nodes[j]
    /\ \A k \in DOMAIN nodes :
           nodes[k] \in 1..Len(graph.nodes) /\ graph.nodes[nodes[k]] = k
    /\ \A e \in DOMAIN edges :
           /\ edges[e] \in 1..Len(graph.edges)
           /\ graph.edges[edges[e]] = <<nodes[e[1]], nodes[e[2]]>>
    /\ \A i, j \in 1..Len(graph.edges) :
           i # j => graph.edges[i] # graph.edges[j]

\* records i and j of the input have the same host and different paths
SameHostOtherPath(i, j) ==
    /\ results[i].host.some
    /\ results[i].host = results[j].host
    /\ results[i].path.some
    /\ results[j].path.some
    /\ results[i].path # results[j].path

\* exactly one graph node is the host's, and the first prefix of record i
\* hangs from it (or is that node)
OneHostNodeWithBranch(i) ==
    LET host == results[i].host.val
        first == FirstPrefixOf(results[i])
    IN  /\ Cardinality({n \in 1..Len(graph.nodes) : graph.nodes[n] = host}) = 1
        /\ first = host \/ <<host, first>> \in DOMAIN edges

\* C5 as stated: one node per key, one edge per key pair, and any two records
\* with the same host and different paths yield exactly one host node with
\* both path branches hanging from it.
C5_Deduplication ==
    /\ OnePerKey
    /\ Returned =>
           \A i, j \in 1..Len(results) :
               SameHostOtherPath(i, j) =>
                   OneHostNodeWithBranch(i) /\ OneHostNodeWithBranch(j)

\* C5 as amended: one node per key, one edge per key pair; two records with
\* the same host of at least two labels and different paths yield exactly one
\* host node with both path branches hanging from it.
C5_DeduplicationTwoLabels ==
    /\ OnePerKey
    /\ Returned =>
           \A i, j \in 1..Len(results) :
               (SameHostOtherPath(i, j)
                    /\ Len(split(results[i].host.val, ".")) >= 2) =>
                   OneHostNodeWithBranch(i) /\ OneHostNodeWithBranch(j)

C5_Witness ==
    /\ Returned
    /\ Len(results) = 2
    /\ SameHostOtherPath(1, 2)
    /\ Len(split(results[1].host.val, ".")) >= 2
    /\ <<results[1].host.val, FirstPrefixOf(results[1])>> \in DOMAIN edges
    /\ <<results[2].host.val, FirstPrefixOf(results[2])>> \in DOMAIN edges
    /\ FirstPrefixOf(results[1]) # FirstPrefixOf(results[2])

(* C6: domain hierarchy *)

\* labels are the dot-separated labels of host
IsLabelsOf(labels, host) ==
    /\ join(labels, ".") = host
    /\ \A i \in 1..Len(labels) : \A j \in 1..Len(labels[i]) : labels[i][j] # "."

\* C6: a single record with only a host of n labels yields nothing when
\* n < 2, and otherwise exactly the n-1 nodes keyed by the suffixes
\* labels[i..n], i = n-2 .. 0, and exactly the n-2 edges from suffix i+1 to
\* suffix i, i = n-3 .. 0; the last label alone is no node.
C6_DomainHierarchy ==
    (Returned /\ Len(results) = 1 /\ results[1].host.some
        /\ ~results[1].path.some /\ ~results[1].method.some) =>
        LET labels == split(results[1].host.val, ".")
            n == Len(labels)
            suffix(i) == join(slice(labels, i, n), ".")
        IN  /\ IsLabelsOf(labels, results[1].host.val)
            /\ IF n < 2
               THEN DOMAIN nodes = {} /\ DOMAIN edges = {}
               ELSE /\ DOMAIN nodes = {suffix(i) : i \in 0..(n - 2)}
                    /\ Cardinality(DOMAIN nodes) = n - 1
                    /\ DOMAIN edges =
                           {<<suffix(i + 1), suffix(i)>> : i \in 0..(n - 3)}
                    /\ Cardinality(DOMAIN edges) = n - 2
                    /\ labels[n] \notin DOMAIN nodes

\* the spec's example: a.b.example.com
C6_Witness ==
    /\ Returned
    /\ results = <<HostOnly(<<a, <<"b">>, example, com>>)>>
    /\ DOMAIN nodes =
           {example_com, <<"b", ".">> \o example_com,
            <<"a", ".", "b", ".">> \o example_com}
    /\ Cardinality(DOMAIN edges) = 2

(* C7: full chain *)

api == <<"a", "p", "i">>
users == <<"u", "s", "e", "r", "s">>
GET_key == GET \o <<" ">> \o example_com \o api_users

\* C7 as stated: path nodes "example.comapi" and "example.comapi/users",
\* edges example.com -> example.comapi -> example.comapi/users, the method
\* node "GET example.com/api/users" and the edge from "example.comapi/users"
\* to it.
C7_FullChain ==
    (Returned /\ results = <<FullChainDoc>>) =>
        LET p1 == example_com \o api
            p2 == example_com \o api \o <<"/">> \o users
        IN  /\ {p1, p2, GET_key} \subseteq DOMAIN nodes
            /\ {<<example_com, p1>>, <<p1, p2>>, <<p2, GET_key>>}
                   \subseteq DOMAIN edges

\* C7 as amended: path nodes "example.com/api" and "example.com/api/users",
\* edges example.com -> example.com/api -> example.com/api/users, the method
\* node "GET example.com/api/users" and the edge from
\* "example.com/api/users" to it; the build returns.
C7_FullChainSlashKeys ==
    (endpoint = "builder" /\ results = <<FullChainDoc>>) =>
        /\ pc # "panicked"
        /\ pc = "returned" =>
               LET p1 == example_com \o <<"/">> \o api
                   p2 == example_com \o <<"/">> \o api \o <<"/">> \o users
               IN  /\ {example_com, p1, p2, GET_key} \subseteq DOMAIN nodes
                   /\ {<<example_com, p1>>, <<p1, p2>>, <<p2, GET_key>>}
                          \subseteq DOMAIN edges

C7_Witness ==
    /\ Returned
    /\ results = <<FullChainDoc>>
    /\ GET_key \in DOMAIN nodes
    /\ Cardinality(DOMAIN nodes) = 4

(* C8: method nodes are terminal *)

\* the method-leaf keys of the records of the input
MethodKeys == {MethodKeyOf(results[i]) : i \in {j \in 1..Len(results) : results[j].method.some}}

\* no host and no path of the input holds a space
NoSpaceInHostOrPath ==
    \A i \in 1..Len(results) :
        /\ ~HasSpace(unwrap_or(results[i].host, <<>>))
        /\ ~HasSpace(unwrap_or(results[i].path, <<>>))

NoMatchResponse ==
    [status |-> NOT_FOUND,
     body |-> Json(ErrorResponse("No matching document found."))]

BuilderUntouched ==
    /\ pos = 0
    /\ graph = NewState.graph
    /\ DOMAIN nodes = {}
    /\ DOMAIN edges = {}

\* C9: the builder called on the empty sequence returns the empty graph
\* without a panic; the graph handler, once the cursor of a successful find
\* is drained with no usable record, answers 404 with the error envelope and
\* never enters the builder.
C9_EmptyInput ==
    /\ (endpoint = "builder" /\ results = <<>>) =>
           pc \in {"loop", "returned"} /\ BuilderUntouched
    /\ (endpoint = "graph" /\ data = "ok" /\ cursor = <<>> /\ results = <<>>
            /\ pc # "cursor") =>
           pc = "responded" /\ response = NoMatchResponse /\ BuilderUntouched

C9_Witness ==
    /\ endpoint = "graph"
    /\ data = "ok"
    /\ results = <<>>
    /\ pc = "responded"
    /\ response.status = NOT_FOUND

(* C10: the record listing with no match *)

\* C10: when the record query succeeds and matches nothing,
\* handle_traffic_records answers 404 with the error envelope.
C10_RecordsNoMatch ==
    (endpoint = "records" /\ data = "ok" /\ results = <<>> /\ pc = "responded") =>
        /\ response.status = NOT_FOUND
        /\ DOMAIN response.body.json = {"message"}

(* C11: store failure *)

\* C11: whenever the store failed (find returned an error, or the connection
\* was lost while the results were read), the response is 500 or 503 with the
\* error envelope, never 404 and never a success.
C11_StoreFailure ==
    Responded /\ StoreFailed =>
        /\ response.status \in {INTERNAL_SERVER_ERROR, SERVICE_UNAVAILABLE}
        /\ IsEnvelope(response.body)

(* C12: partial-result tolerance *)

\* C12: in both handlers the collected results are, at every point, exactly
\* the records of the items yielded so far that decoded, in stream order; so
\* the builder's input and the page the records handler returns are that
\* subsequence, with failed items skipped and nothing else dropped or added.
C12_PartialResults ==
    Handling =>
        /\ results = Decoded(yielded)
        /\ (pc = "responded" /\ endpoint = "records" /\ data = "ok"
                => response.body = Json(Decoded(yielded)))

\* the records handler answered after an item that failed to decode came
\* between two records that decoded
C12_Witness ==
    /\ Responded
    /\ endpoint = "records"
    /\ Len(yielded) = 3
    /\ yielded[1].ok
    /\ yielded[2] = CursorErr
    /\ yielded[3].ok
    /\ Len(results) = 2

(* C13: serializer completeness *)

\* C13: the serialized graph holds exactly one node entry per node of the
\* graph, with the node's weight (its key) as id, and exactly one link per edge
\* of the graph, with the weights of the edge's endpoints as source and
\* target: nothing omitted, nothing twice; the answer is the function of the
\* built graph that traffic_graph_response computes.
C13_SerializerComplete ==
    GraphSuccess =>
        LET payload == response.body.json.json_text
            node_entry(w) == [id |-> w]
            link_entry(e) == [source |-> graph.nodes[e[1]],
                              target |-> graph.nodes[e[2]]]
        IN  /\ payload.nodes = BagOfSeq(graph.nodes, node_entry)
            /\ payload.links = BagOfSeq(graph.edges, link_entry)
            /\ response.body = Json(traffic_graph_response(graph, nodes, edges))

\* a graph with several nodes and an edge between two different nodes was
\* serialized
C13_Witness ==
    /\ GraphSuccess
    /\ Len(graph.nodes) >= 3
    /\ \E i \in 1..Len(graph.edges) : graph.edges[i][1] # graph.edges[i][2]

(* C14: graph endpoint body shape *)

\* C14: on success the body of the graph endpoint is the JSON object with the
\* members "nodes" and "links": the GraphResponse is encoded once, not as a
\* JSON text that is encoded again.
C14_BodyShape ==
    GraphSuccess => DOMAIN response.body.json = {"nodes", "links"}

(* C15: pagination *)

\* C15: once handle_traffic_records has built its FindOptions, the store is
\* asked for the records sorted by host ascending, with skip the mathematical
\* product of page and size and limit equal to size (page 0 and size 10 when
\* absent), and the handler did not panic on the way.
C15_Pagination ==
    endpoint = "records" /\ pc \notin {"idle", "options"} =>
        /\ pc # "panicked"
        /\ find_options.sort = "host asc"
        /\ find_options.skip = page_number(query) * page_size(query)
        /\ find_options.limit = page_size(query)

(* C16: first-prefix attachment *)

\* C16: when the path step of a record with a path runs, it does not fail, the
\* first-prefix node exists afterwards, and the edge from the bare host key to
\* the first-prefix key exists afterwards iff a node keyed by the bare host
\* existed before the step ran.
C16_FirstPrefixAttachment ==
    [][pc = "path" /\ results[pos].path.some =>
          LET host == unwrap_or(results[pos].host, <<>>)
              key == FirstPrefixOf(results[pos])
          IN  /\ pc' # "panicked"
              /\ key \in DOMAIN nodes'
              /\ (<<host, key>> \in DOMAIN edges' <=> host \in DOMAIN nodes)]_vars

(* C17: method leaf attachment *)

\* C17: when the method step of a record with a method runs, the build goes on
\* to the next record, the method node exists afterwards, and the edge from
\* host + path to the method key exists afterwards iff a node keyed host + path
\* exists when the step runs.
C17_MethodLeafAttachment ==
    [][pc = "method" /\ results[pos].method.some =>
          LET parent_key == unwrap_or(results[pos].host, <<>>)
                                \o unwrap_or(results[pos].path, <<>>)
              key == MethodKeyOf(results[pos])
          IN  /\ pc' = "loop"
              /\ key \in DOMAIN nodes'
              /\ (<<parent_key, key>> \in DOMAIN edges'
                    <=> parent_key \in DOMAIN nodes)]_vars

(* C18: edges lengthen the key *)

\* C18: in every state of a build, every edge whose source and target differ
\* has a source key strictly shorter than its target key, and the edges that
\* are not self-loops form no directed cycle.
C18_EdgesLengthen ==
    /\ \A e \in ProperEdges : Len(e[1]) < Len(e[2])
    /\ ~HasCycle(ProperEdges)

\* a build returned a graph with a self-loop and a chain of two edges between
\* different nodes
C18_Witness ==
    /\ Returned
    /\ \E e \in DOMAIN edges : e[1] = e[2]
    /\ \E e, f \in ProperEdges : e[2] = f[1]

(* C19: no dangling edge *)

\* C19: in every state of a build, both ends of every key of the edge index
\* are keys of the node index, and the edge stored under it connects the
\* handles registered for them; every link of a serialized graph has its
\* source and its target among the serialized node ids.
C19_NoDanglingEdge ==
    /\ \A e \in DOMAIN edges :
           /\ e[1] \in DOMAIN nodes
           /\ e[2] \in DOMAIN nodes
           /\ edges[e] \in 1..Len(graph.edges)
           /\ graph.edges[edges[e]] = <<nodes[e[1]], nodes[e[2]]>>
    /\ GraphSuccess =>
           LET payload == response.body.json.json_text
               ids == {n.id : n \in BagToSet(payload.nodes)}
           IN  \A l \in BagToSet(payload.links) :
                   l.source \in ids /\ l.target \in ids

\* a graph with a method edge and a prefix edge was serialized
C19_Witness ==
    /\ GraphSuccess
    /\ \E e \in DOMAIN edges : HasSpace(e[2])
    /\ Cardinality(DOMAIN edges) >= 3

(* C20: node keys are the union of the records' own keys *)

\* C20: when a build has returned, its node-key set is the union, over the
\* records of its input, of the keys each record derives on its own; so it
\* depends on the set of records only, not on their order or multiplicity.
C20_NodeKeysUnion ==
    Returned =>
        DOMAIN nodes = UNION {OwnKeys(results[i]) : i \in 1..Len(results)}

\* a build returned from two different records that share a node key and
\* each bring a key of their own
C20_Witness ==
    /\ Returned
    /\ Len(results) = 2
    /\ OwnKeys(results[1]) \cap OwnKeys(results[2]) # {}
    /\ OwnKeys(results[1]) \ OwnKeys(results[2]) # {}
    /\ OwnKeys(results[2]) \ OwnKeys(results[1]) # {}

====
